---- MODULE Spec2Model ----
(***************************************************************************)
(* A model of src/src/Pond.tsx (the version that starts at line 160): the  *)
(* phase animator of PondScene, the three-buffer RippleSim, the LeafSystem *)
(* and the useDataUrlTexture hook of WaterPlane.                           *)
(*                                                                         *)
(* Numbers.  The program computes in floating point; the model computes in *)
(* binary fixed point.  A level, a height, a coordinate or a magnitude x   *)
(* is the integer x * 2^bits, products are divided back with \div (which   *)
(* rounds toward minus infinity).  Times of performance.now() are integer  *)
(* milliseconds; times of the three.js clock are integer tenths of a       *)
(* second.                                                                 *)
(*                                                                         *)
(* React.  A change of props commits atomically: the render consumes the   *)
(* queued state updates, then the cleanups of the effects whose            *)
(* dependencies changed run, then those effects run, in the order they are *)
(* declared.  A state setter called from a callback (setLevel,             *)
(* setRippleTex, setTex) only queues the value; it becomes the component's *)
(* state at the next render (action Render, or the render of a commit).    *)
(***************************************************************************)
EXTENDS Integers, Sequences, FiniteSets, TLC

VARIABLES
    \* ---- props handed to Pond by the host
    phase,          \* "off" | "filling" | "on" | "draining"
    onDrained,      \* identity of the onDrained function the host passes
    backgroundImage,\* Null (null) or a data URL
    maxLeaves,      \* the maxLeaves prop of LeafSystem: a positive cap
    \* ---- PondScene: the phase animator
    level,          \* useState level
    levelQ,         \* value queued by setLevel and not rendered yet, or NoQ
    levelRef,       \* levelRef.current
    raf,            \* TRUE while the callback named by the running effect's `raf` is pending
    frames,         \* the browser's pending animation-frame callbacks: the closure of each
    from,           \* `from` of the running effect's closure
    start,          \* `start` of the running effect's closure
    perfNow,        \* performance.now()
    drainCalls,     \* history: calls of onDrained since the phase last changed
    \* ---- RippleSim
    prevIdx, prevPrevIdx, writeIdx,
    read0, read1, write, \* the two-render-target RippleSim: read0.current, read1.current, write.current
    bufs,           \* contents of rts[0..2]: cell -> encoded red channel
    written,        \* history: the tick that last rendered into each buffer (0: cleared)
    ticks,          \* history: number of simulation ticks since mount
    mouseUv, lastMouse, lastT, impulse, impulseRadius,
    rippleTex,      \* useState rippleTex of PondScene: Null (null) or a buffer index
    rippleTexQ,     \* value queued by onTexture (setRippleTex), or NoQ
    \* ---- LeafSystem
    leaves,         \* leavesRef.current
    nextSpawnAt,    \* nextSpawnAt.current
    idRef,          \* idRef.current
    clockNow,       \* clock.getElapsedTime()
    meshCount,      \* meshRef.current.count
    \* ---- useDataUrlTexture
    tex,            \* useState tex: Null (null) or a texture id
    texQ,           \* texture of the queued setTex updater: NoQ, Null or a texture id
    effTex,         \* texture `t` held by the effect's cleanup closure, or Null
    created,        \* history: number of textures created by loader.load
    disposed,       \* history: textures on which dispose() was called
    undecodable,    \* textures whose image failed to decode: they never get an image
    \* ---- shader uniforms of the two consumers
    waterU,         \* WaterPlane: uLevel, uSceneTex, uHasSceneTex, uRippleTex, uHasRipple
    leafU           \* LeafSystem: uRippleTex, uHasRipple of leafMat

animVars == <<level, levelQ, levelRef, raf, frames, from, start, perfNow, drainCalls>>
simVars  == <<prevIdx, prevPrevIdx, writeIdx, bufs, written, ticks, read0, read1, write>>
ptrVars  == <<mouseUv, lastMouse, lastT, impulse, impulseRadius>>
rtexVars == <<rippleTex, rippleTexQ>>
leafVars == <<leaves, nextSpawnAt, idRef, clockNow, meshCount>>
texVars  == <<tex, texQ, effTex, created, disposed, undecodable>>
unifVars == <<waterU, leafU>>
vars == <<phase, onDrained, backgroundImage, maxLeaves, animVars, simVars, ptrVars,
          rtexVars, leafVars, texVars, unifVars>>

Null == -1          \* JavaScript null (levels, buffer indices and texture ids are >= 0)
NoQ  == Null - 1    \* no state update is queued

Min(a, b) == IF a < b THEN a ELSE b
Max(a, b) == IF a > b THEN a ELSE b
Clamp(x, lo, hi) == Max(lo, Min(hi, x))

(***************************************************************************)
(* Bounds of the model.                                                    *)
(***************************************************************************)
FracBits == 8           \* fractional bits of a level and of the eased progress
MaxPerfNow == 1000      \* animation ticks stop at this performance.now()
NumCallbacks == 2       \* distinct onDrained identities the host may pass

One == 2 ^ FracBits     \* the level 1.0

\* Milliseconds between two animation frames (a frame may be late).
FrameSteps == {250, 325}

Phases == {"off", "filling", "on", "draining"}
CbIds == 1 .. NumCallbacks

(***************************************************************************)
(* PondScene: the phase animator.                                          *)
(***************************************************************************)
FillDur == 650
DrainDur == 500

\* const to = phase === "draining" ? 0 : 1
To(ph) == IF ph = "draining" THEN 0 ELSE One
\* const dur = phase === "draining" ? 500 : 650
Dur(ph) == IF ph = "draining" THEN DrainDur ELSE FillDur

\* useState(phase === "on" ? 1 : 0)
InitialLevel(ph) == IF ph = "on" THEN One ELSE 0

\* p = Math.min(1, (now - start) / dur), as a fixed-point fraction
Progress(now, st, d) == Min(One, ((now - st) * One) \div d)

\* easeInOutCubic with the division by 2 of its second branch left out
easeWithoutHalf(t) ==
    IF 2 * t < One
    THEN (4 * t * t * t) \div (One * One)
    ELSE One - (((2 * One - 2 * t) ^ 3) \div (One * One))

\* t < 0.5 ? 4*t*t*t : 1 - Math.pow(-2*t + 2, 3) / 2
easeInOutCubic(t) ==
    IF 2 * t < One
    THEN (4 * t * t * t) \div (One * One)
    ELSE One - (((2 * One - 2 * t) ^ 3) \div (2 * One * One))

\* Interp that adds the whole target instead of the remaining distance
InterpAddsTarget(f, t, e) == f + (t * e) \div One

\* v = from + (to - from) * e
Interp(f, t, e) == f + ((t - f) * e) \div One

(***************************************************************************)
(* RippleSim: the wave equation on three rotating render targets.          *)
(* A height h is the integer h * HOne; a buffer stores the encoded red     *)
(* channel r = h * 0.5 + 0.5 as the integer r * 2 * HOne.  UV coordinates  *)
(* and the splat radius are integers x * UvOne.  The impulse magnitude is  *)
(* the integer m * HOne.                                                   *)
(***************************************************************************)
simSize == 2            \* bound: the grid is simSize x simSize texels
HBits == 3              \* bound: fractional bits of a height
UvBits == 10            \* bound: fractional bits of a UV coordinate
MaxTicks == 2           \* bound: simulation ticks explored per mount
CanvasW == 400          \* bound: width of the canvas rectangle, CSS pixels
CanvasH == 1200         \* bound: height of the canvas rectangle, CSS pixels

HOne == 2 ^ HBits
UvOne == 2 ^ UvBits

uC == 35                \* uC = 0.35, in hundredths
uDamping == 20          \* uDamping = 0.020, in thousandths
strength == 9           \* strength={0.9}, in tenths
moveGain == 35          \* speed * 0.35, in hundredths
clickImpulse == 125     \* Math.max(impulse, 1.25), in hundredths
clickRadius == 40       \* impulseRadius = 0.04, in thousandths
baseRadius == 20        \* baseRadius = 0.02, in thousandths
impulseDecay == 85      \* impulse *= 0.85, in hundredths
radiusEase == 18        \* lerp(radius, baseRadius, 0.18), in hundredths

Fine == 100 * 100       \* next is computed in units of 1 / (HOne * Fine)

Idx == 0 .. 2
\* The two render targets of the two-target RippleSim, as indices
rtA == 0
rtB == 1

Cells == (0 .. simSize - 1) \X (0 .. simSize - 1)

\* float decodeH(float r) { return r * 2.0 - 1.0; }
decodeH(r) == r - HOne
\* float encodeH(float h) { return h * 0.5 + 0.5; }, h in units of 1/(HOne*Fine),
\* rounded to the nearest value the render target stores
encodeH(hf) == (hf + HOne * Fine + Fine \div 2) \div Fine

\* gl.setClearColor(new THREE.Color(0.5, 0, 0), 1): red = 0.5 in every texel
ClearedBuffer == [c \in Cells |-> HOne]

\* UV of the centre of texel i along one axis
TexelCentre(i) == ((2 * i + 1) * UvOne) \div (2 * simSize)

\* texture2D with clamp-to-edge wrapping, sampled one texel away: the
\* neighbouring texel, or the edge texel itself outside [0,1]
sampleH(buf, c) ==
    decodeH(buf[<<Clamp(c[1], 0, simSize - 1), Clamp(c[2], 0, simSize - 1)>>])

\* exp(-x) for x = d2/r2, in hundredths: a table of the exponential
ExpNeg(d2, r2) ==
    IF r2 = 0 THEN (IF d2 = 0 THEN 100 ELSE 0)
    ELSE IF d2 = 0 THEN 100
    ELSE IF d2 <= r2 \div 4 THEN 78
    ELSE IF d2 <= r2 \div 2 THEN 61
    ELSE IF d2 <= r2 THEN 37
    ELSE IF d2 <= 2 * r2 THEN 14
    ELSE IF d2 <= 4 * r2 THEN 2
    ELSE 0

\* float d = distance(vUv, uMouse); squared
Dist2(a, b) == (a[1] - b[1]) * (a[1] - b[1]) + (a[2] - b[2]) * (a[2] - b[2])

\* a radius in thousandths of a UV unit, in units of 1/UvOne
RadiusUv(r) == (r * UvOne) \div 1000

\* ClampHeight with the clamp left out
NoClamp(nf) == nf

\* next = clamp(next, -1.0, 1.0)
ClampHeight(nf) == Clamp(nf, -(HOne * Fine), HOne * Fine)

\* The fragment shader's main() for texel c: the encoded value written.
\* prev, prevPrev: the buffers bound as uPrev, uPrevPrev; mouse, imp, rad:
\* the uniforms uMouse, uImpulse, uImpulseRadius.
Fragment(prev, prevPrev, c, mouse, imp, rad) ==
    LET h  == sampleH(prev, c)
        h1 == sampleH(prevPrev, c)
        l  == sampleH(prev, <<c[1] + 1, c[2]>>) + sampleH(prev, <<c[1] - 1, c[2]>>)
              + sampleH(prev, <<c[1], c[2] + 1>>) + sampleH(prev, <<c[1], c[2] - 1>>)
              - 4 * h
        wave == (2 * h - h1) * Fine + uC * uC * l
        vel  == h - h1
        damped == wave - uDamping * 10 * vel
        d2 == Dist2(<<TexelCentre(c[1]), TexelCentre(c[2])>>, mouse)
        rr == RadiusUv(rad)
        splat == ExpNeg(d2, rr * rr)
        next == damped + splat * imp * strength * 10
    IN encodeH(ClampHeight(next))

\* x ? 1 : 0 for a texture reference x
Has(x) == IF x # Null THEN 1 ELSE 0

\* WaterPlane's uniforms as its frame callback leaves them: uLevel = level,
\* uSceneTex = sceneTex, uRippleTex = rippleTex and the two flags
WaterUniforms(lv, st, rt) ==
    [uLevel |-> lv, uSceneTex |-> st, uHasSceneTex |-> Has(st),
     uRippleTex |-> rt, uHasRipple |-> Has(rt)]

\* leafMat's ripple uniforms as LeafSystem's frame callback leaves them
LeafUniforms(rt) == [uRippleTex |-> rt, uHasRipple |-> Has(rt)]

\* The texture the next render hands to the consumers.
ExposedTex == IF rippleTexQ # NoQ THEN rippleTexQ ELSE rippleTex

\* enabled={phase === "on" || phase === "filling"}
Enabled == phase \in {"on", "filling"}

\* The level the next render will show: the queued update if there is one.
LastSetLevel == IF levelQ # NoQ THEN levelQ ELSE level

\* A state setter called with v: React queues v, unless v is the current
\* state and nothing is queued (then it bails out without a render).
Queue(cur, q, v) == IF v = cur /\ q = NoQ THEN NoQ ELSE v

\* ---- pointer input
PointerSteps == {0, 1000}  \* milliseconds since the previous handler
ClientPoints ==                 \* clientX, clientY of the events explored
    { <<CanvasW \div 4, CanvasH \div 4>>,
      <<-1, CanvasH + 1>> }

RECURSIVE ISqrtIn(_, _, _)
ISqrtIn(n, lo, hi) ==
    IF lo >= hi THEN lo
    ELSE LET mid == (lo + hi + 1) \div 2
         IN IF mid * mid <= n THEN ISqrtIn(n, mid, hi) ELSE ISqrtIn(n, lo, mid - 1)
\* Math.sqrt, rounded down
ISqrt(n) == ISqrtIn(n, 0, 2 * UvOne)

\* getUvFromEvent without the clamp to [0, 1]
getUvUnclamped(e) ==
    <<(e[1] * UvOne) \div CanvasW, UvOne - ((e[2] * UvOne) \div CanvasH)>>

\* getUvFromEvent: the canvas is `fixed inset-0`, its rectangle starts at (0,0)
getUvFromEvent(e) ==
    LET x == (e[1] * UvOne) \div CanvasW
        y == UvOne - ((e[2] * UvOne) \div CanvasH)
    IN <<Clamp(x, 0, UvOne), Clamp(y, 0, UvOne)>>

\* MoveImpulse without the cap at 1.0
MoveImpulseUncapped(uv, last, elapsed) ==
    (HOne * moveGain * 10 * ISqrt(Dist2(uv, last))) \div (UvOne * Max(1, elapsed))

\* impulse.current = Math.min(1.0, speed * 0.35), with
\* speed = Math.sqrt(dx*dx + dy*dy) / (dt / 1000), dt = Math.max(1, now - lastT)
MoveImpulse(uv, last, elapsed) ==
    LET dt == Max(1, elapsed)
        dist == ISqrt(Dist2(uv, last))
    IN Min(HOne, (HOne * moveGain * 10 * dist) \div (UvOne * dt))

\* impulse.current = Math.max(impulse.current, 1.25)
ClickImpulse(imp) == Max(imp, (clickImpulse * HOne) \div 100)

onMove(e, el) ==
    /\ phase # "off"
    /\ perfNow + el <= MaxPerfNow
    /\ perfNow' = perfNow + el
    /\ IF ~Enabled
       THEN UNCHANGED ptrVars
       ELSE LET uv == getUvFromEvent(e)
            IN /\ mouseUv' = uv
               /\ impulse' = MoveImpulse(uv, lastMouse, perfNow' - lastT)
               /\ lastMouse' = uv
               /\ lastT' = perfNow'
               /\ UNCHANGED impulseRadius
    /\ UNCHANGED <<maxLeaves, phase, onDrained, backgroundImage, level, levelQ, levelRef, raf,
                   frames, from, start, drainCalls, simVars, rtexVars, leafVars, texVars,
                   unifVars>>

onDown(e, el) ==
    /\ phase # "off"
    /\ perfNow + el <= MaxPerfNow
    /\ perfNow' = perfNow + el
    /\ IF ~Enabled
       THEN UNCHANGED ptrVars
       ELSE LET uv == getUvFromEvent(e)
            IN /\ mouseUv' = uv
               /\ impulse' = ClickImpulse(impulse)
               /\ impulseRadius' = clickRadius
               /\ lastMouse' = uv
               /\ lastT' = perfNow'
    /\ UNCHANGED <<maxLeaves, phase, onDrained, backgroundImage, level, levelQ, levelRef, raf,
                   frames, from, start, drainCalls, simVars, rtexVars, leafVars, texVars,
                   unifVars>>

\* ---- the frame callback of RippleSim
FrameDts == {25, 50}    \* dt of a rendered frame, tenths of a second

\* Rotation that forgets to move prevPrevIdx
RotationKeepsPrevPrev(p, pp, w) == <<w, pp, p>>
\* Rotation of a two-buffer ping-pong: the next write target is the old prev
RotationPingPong(p, pp, w) == <<w, p, p>>

\* advance history: prevPrev <- prev, prev <- write, write <- old prevPrev
\* (the new <<prevIdx, prevPrevIdx, writeIdx>>)
Rotation(p, pp, w) == <<w, p, pp>>

\* gl.render(simScene, simCam) into rts[writeIdx]
RenderSim ==
    [bufs EXCEPT ![writeIdx] =
        [c \in Cells |-> Fragment(bufs[prevIdx], bufs[prevPrevIdx], c,
                                  mouseUv, impulse, impulseRadius)]]

\* DisabledFrame that still rotates the roles
DisabledFrameRotates ==
    /\ rippleTexQ' = Queue(rippleTex, rippleTexQ, Null)
    /\ prevIdx' = writeIdx /\ prevPrevIdx' = prevIdx /\ writeIdx' = prevPrevIdx
    /\ UNCHANGED <<rippleTex, bufs, written, ticks, read0, read1, write, ptrVars>>

\* if (!enabled) { onTexture(null); return; }
DisabledFrame ==
    /\ rippleTexQ' = Queue(rippleTex, rippleTexQ, Null)
    /\ UNCHANGED <<rippleTex, simVars, ptrVars>>

\* EaseRadius moving the radius away from baseRadius
EaseRadiusAway(r) == r - ((baseRadius - r) * radiusEase) \div 100

\* impulseRadius.current = THREE.MathUtils.lerp(impulseRadius.current, baseRadius, 0.18)
EaseRadius(r) == r + ((baseRadius - r) * radiusEase) \div 100

EnabledFrame(dt) ==
    /\ ticks < MaxTicks
    /\ bufs' = RenderSim
    /\ impulse' = (impulse * impulseDecay) \div 100
    /\ impulseRadius' = EaseRadius(impulseRadius)
    /\ LET r == Rotation(prevIdx, prevPrevIdx, writeIdx)
       IN /\ prevIdx' = r[1]
          /\ prevPrevIdx' = r[2]
          /\ writeIdx' = r[3]
          /\ rippleTexQ' = Queue(rippleTex, rippleTexQ, r[1])
    /\ ticks' = ticks + 1
    /\ written' = [written EXCEPT ![writeIdx] = ticks + 1]
    /\ UNCHANGED <<rippleTex, mouseUv, lastMouse, lastT, read0, read1, write>>

\* RippleSim's useFrame callback: what it does to its own state
RippleBody(dt) == IF Enabled THEN EnabledFrame(dt) ELSE DisabledFrame

RippleFrame(dt) ==
    /\ phase # "off"
    /\ RippleBody(dt)
    /\ UNCHANGED <<maxLeaves, phase, onDrained, backgroundImage, animVars, leafVars, texVars,
                   unifVars>>

(***************************************************************************)
(* LeafSystem.  Positions are integers x * 100 (hundredths of a viewport   *)
(* unit), clock times are tenths of a second, a leaf's vx is hundredths of *)
(* a unit per second, angles are milliradians, a Math.random() draw r is   *)
(* the integer r * One.  A leaf's scale s and rotation r never decide a    *)
(* spawn or a cull and are left out.                                       *)
(***************************************************************************)
MaxCap == 3             \* bound: the caps explored are 1 .. MaxCap (the program passes maxLeaves={9})
MaxClock == 450         \* bound: frames stop at this elapsed clock time

zoom == 100             \* camera={{ position: [0, 0, 10], zoom: 100 }}
viewportW == (CanvasW * 100) \div zoom    \* viewport.width
viewportH == (CanvasH * 100) \div zoom    \* viewport.height

Rands == {0, One \div 2}  \* the draws of Math.random() explored
\* the draws <<for y, for vx, for wobble>> of one spawnLeaf call explored
LeafDraws == {<<0, 0, 0>>, <<One \div 2, One - 1, One \div 2>>}

\* THREE.MathUtils.lerp(a, b, t)
lerp(a, b, t) == a + ((b - a) * t) \div One

\* Math.sin of an angle in milliradians, in thousandths: a table of eight
\* values per turn
SinMilli(a) ==
    LET k == ((a % 6283) * 8) \div 6283
    IN <<0, 707, 1000, 707, 0, -707, -1000, -707>>[Min(k, 7) + 1]

\* leavesRef.current.some((l) => l.x < -w / 2 + 1.6)
TooClose(ls) == \E i \in 1 .. Len(ls) : 2 * ls[i].x < -viewportW + 320

\* leavesRef.current.length >= Math.floor(maxLeaves * 0.7)
Crowded(ls) == Len(ls) >= (maxLeaves * 7) \div 10

NewLeaf(id, ry, rvx, rw) ==
    [id |-> id,
     x |-> (-viewportW - 130) \div 2,
     y |-> lerp((-viewportH + 120) \div 2, (viewportH - 120) \div 2, ry),
     vx |-> lerp(10, 22, rvx),
     wobble |-> (rw * 6283) \div One]

\* spawnLeaf(): the possible contents of leavesRef.current afterwards
spawnLeaf(ls) ==
    IF Crowded(ls) /\ TooClose(ls)
    THEN {ls}
    ELSE {Append(ls, NewLeaf(idRef + Len(ls) - Len(leaves), d[1], d[2], d[3])) : d \in LeafDraws}

\* SpawnDue without the cap
SpawnDueNoCap(now, nsa, n) == now >= nsa

\* now >= nextSpawnAt.current && leavesRef.current.length < maxLeaves
SpawnDue(now, nsa, n) == now >= nsa /\ n < maxLeaves

\* if (nextSpawnAt.current === 0) { ... }: the possible <<leaves, nextSpawnAt>>
FirstSpawn(ls, nsa, now) ==
    IF nsa # 0 THEN {<<ls, nsa>>}
    ELSE {<<l2, now + lerp(2, 8, r)>> :
            l2 \in (IF Len(ls) = 0 THEN spawnLeaf(ls) ELSE {ls}), r \in Rands}

\* the timed spawn: the possible <<leaves, nextSpawnAt>>
TimedSpawn(ls, nsa, now) ==
    IF SpawnDue(now, nsa, Len(ls))
    THEN {<<l2, now + lerp(25, 65, r)>> : l2 \in spawnLeaf(ls), r \in Rands}
    ELSE {<<ls, nsa>>}

\* MoveLeaf without the drift in x
MoveLeafBobOnly(l, now, dt) ==
    [l EXCEPT !.y = l.y + (SinMilli(now * 35 + l.wobble) * 18 * dt) \div 1000]

\* Move + bob
MoveLeaf(l, now, dt) ==
    [l EXCEPT !.x = l.x + (l.vx * dt) \div 10,
              !.y = l.y + (SinMilli(now * 35 + l.wobble) * 18 * dt) \div 1000]

\* Visible without the test of the lower edge
VisibleNoBottom(l) ==
    /\ 2 * l.x < viewportW + 160
    /\ 2 * l.y < viewportH + 160

\* Cull offscreen: the leaves that stay
Visible(l) ==
    /\ 2 * l.x < viewportW + 160
    /\ 2 * l.y > -viewportH - 160
    /\ 2 * l.y < viewportH + 160

MoveAll(ls, now, dt) == [i \in 1 .. Len(ls) |-> MoveLeaf(ls[i], now, dt)]

\* LeafSystem's useFrame callback: what it does to its own state
LeafBody(dt) ==
    /\ clockNow' = clockNow + dt
    /\ IF ~Enabled
       THEN UNCHANGED <<leaves, nextSpawnAt, idRef, meshCount>>
       ELSE \E a \in FirstSpawn(leaves, nextSpawnAt, clockNow') :
              \E b \in TimedSpawn(a[1], a[2], clockNow') :
                 /\ leaves' = SelectSeq(MoveAll(b[1], clockNow', dt), Visible)
                 /\ nextSpawnAt' = b[2]
                 /\ idRef' = idRef + (Len(b[1]) - Len(leaves))
                 /\ meshCount' = Min(Len(leaves'), maxLeaves)
    /\ leafU' = IF Enabled THEN LeafUniforms(rippleTex) ELSE leafU

LeafFrame(dt) ==
    /\ phase # "off"
    /\ clockNow + dt <= MaxClock
    /\ LeafBody(dt)
    /\ UNCHANGED <<maxLeaves, phase, onDrained, backgroundImage, animVars, simVars, ptrVars,
                   rtexVars, texVars, waterU>>

(***************************************************************************)
(* useDataUrlTexture.  A texture is the number of the loader.load call     *)
(* that created it; data URLs are 1 .. NumUrls.                            *)
(***************************************************************************)
NumUrls == 2            \* bound: distinct data URLs the host may pass
MaxTextures == 3        \* bound: textures created in one run

Urls == 1 .. NumUrls

\* TexCleanup of an effect that returns no cleanup
TexCleanupNone(d, t) == d

\* return () => { t.dispose(); }: the disposed set after the cleanup of the
\* effect that created t (t = Null: the effect returned no cleanup)
TexCleanup(d, t) == IF t = Null THEN d ELSE d \cup {t}

\* setTex((prev) => { prev?.dispose(); return t; }) processed by a render:
\* the disposed set afterwards
TexUpdater(d, prev) == IF prev = Null THEN d ELSE d \cup {prev}

\* Textures created and not disposed.
Undisposed == (1 .. created) \ disposed

(***************************************************************************)
(* React: renders and commits.                                             *)
(***************************************************************************)
\* The state a render computes from the queued updates.
RTex == IF texQ # NoQ THEN texQ ELSE tex
RDisposed == IF texQ # NoQ THEN TexUpdater(disposed, tex) ELSE disposed

\* The closure of the running phase effect: what its tick reads.
Closure == [ph |-> phase, cb |-> onDrained, from |-> from, start |-> start]

\* A cleanup that cancels nothing
CancelNothing(fs, c) == fs

\* return () => cancelAnimationFrame(raf): the pending callbacks left when
\* the effect with closure c is cleaned up
cancelAnimationFrame(fs, c) == fs \ {c}

\* StartFrom that restarts from the target of the transition it replaces
StartFromTarget(ref, target) == target

\* const from = levelRef.current, read by the phase effect when it (re)runs;
\* ref: levelRef.current, target: the `to` of the transition it replaces
StartFrom(ref, target) == ref

\* A render caused by queued state updates alone: no prop changed, so only
\* the effect on [level] runs.
Render ==
    /\ phase # "off"
    /\ levelQ # NoQ \/ rippleTexQ # NoQ \/ texQ # NoQ
    /\ level' = LastSetLevel
    /\ levelRef' = LastSetLevel
    /\ levelQ' = NoQ
    /\ rippleTex' = ExposedTex
    /\ rippleTexQ' = NoQ
    /\ tex' = RTex
    /\ disposed' = RDisposed
    /\ texQ' = NoQ
    /\ UNCHANGED <<maxLeaves, phase, onDrained, backgroundImage, raf, frames, from, start, perfNow,
                   drainCalls, simVars, ptrVars, leafVars, effTex, created,
                   undecodable, unifVars>>

\* The state of an unmounted (or never mounted) Pond: nothing is kept.
Unmounted ==
    /\ level' = 0 /\ levelQ' = NoQ /\ levelRef' = 0
    /\ raf' = FALSE /\ from' = 0 /\ start' = 0
    /\ prevIdx' = 0 /\ prevPrevIdx' = 1 /\ writeIdx' = 2
    /\ read0' = rtA /\ read1' = rtB /\ write' = rtA
    /\ bufs' = [i \in Idx |-> ClearedBuffer]
    /\ written' = [i \in Idx |-> 0]
    /\ ticks' = 0
    /\ mouseUv' = <<-10 * UvOne, -10 * UvOne>>
    /\ lastMouse' = <<0, 0>>
    /\ lastT' = 0
    /\ impulse' = 0
    /\ impulseRadius' = baseRadius
    /\ rippleTex' = Null /\ rippleTexQ' = NoQ
    /\ leaves' = <<>> /\ nextSpawnAt' = 0 /\ idRef' = 1
    /\ clockNow' = 0 /\ meshCount' = maxLeaves
    /\ tex' = Null /\ texQ' = NoQ /\ effTex' = Null
    /\ waterU' = WaterUniforms(0, Null, Null)
    /\ leafU' = LeafUniforms(Null)

\* Pond is rendered with phase "off": PondScene unmounts, the cleanups run.
Unmount ==
    /\ Unmounted
    /\ frames' = cancelAnimationFrame(frames, Closure)
    /\ disposed' = TexCleanup(disposed, effTex)
    /\ UNCHANGED <<created, undecodable>>

\* The effect of useDataUrlTexture run for dataUrl = bg.
TexEffect(bg, d) ==
    IF bg = Null
    THEN /\ texQ' = Null
         /\ effTex' = Null
         /\ created' = created
         /\ disposed' = d
         /\ undecodable' = undecodable
    ELSE /\ created < MaxTextures
         /\ created' = created + 1
         /\ texQ' = created + 1
         /\ effTex' = created + 1
         /\ disposed' = d
         /\ \E ok \in BOOLEAN :
               undecodable' = IF ok THEN undecodable ELSE undecodable \cup {created + 1}

\* Pond goes from "off" to ph: everything mounts, every effect runs once.
Mount(ph, bg) ==
    /\ level' = InitialLevel(ph) /\ levelQ' = NoQ /\ levelRef' = InitialLevel(ph)
    /\ from' = StartFrom(InitialLevel(ph), InitialLevel(ph))
    /\ start' = perfNow
    /\ raf' = TRUE
    /\ frames' = frames \cup {Closure'}
    /\ prevIdx' = 0 /\ prevPrevIdx' = 1 /\ writeIdx' = 2
    /\ read0' = rtA /\ read1' = rtB /\ write' = rtA
    /\ bufs' = [i \in Idx |-> ClearedBuffer]
    /\ written' = [i \in Idx |-> 0]
    /\ ticks' = 0
    /\ mouseUv' = <<-10 * UvOne, -10 * UvOne>>
    /\ lastMouse' = <<0, 0>>
    /\ lastT' = perfNow
    /\ impulse' = 0
    /\ impulseRadius' = baseRadius
    /\ rippleTex' = Null /\ rippleTexQ' = NoQ
    /\ leaves' = <<>> /\ nextSpawnAt' = 0 /\ idRef' = 1
    /\ clockNow' = 0 /\ meshCount' = maxLeaves
    /\ tex' = Null
    /\ TexEffect(bg, disposed)
    /\ waterU' = WaterUniforms(InitialLevel(ph), Null, Null)
    /\ leafU' = LeafUniforms(Null)

\* LeafReset that keeps everything
LeafResetNever(ph, ls, nsa) == <<ls, nsa>>

\* The reset effect of LeafSystem, deps [enabled]: the <<leaves, nextSpawnAt>>
\* it leaves when the new phase is ph.
LeafReset(ph, ls, nsa) ==
    IF ph \in {"on", "filling"} THEN <<ls, nsa>> ELSE <<<<>>, 0>>

\* Pond stays mounted and is rendered with new props.  The render consumes
\* the queued updates; the phase effect (deps [phase, onDrained]) is cleaned
\* up and rerun when animChanged, the texture effect (deps [dataUrl]) when
\* the image changed, the reset of LeafSystem (deps [enabled]) when enabled
\* changed.
Update(ph, bg, animChanged) ==
    /\ level' = LastSetLevel
    /\ levelRef' = LastSetLevel
    /\ levelQ' = NoQ
    /\ IF animChanged
       THEN /\ from' = StartFrom(LastSetLevel, To(phase))
            /\ start' = perfNow
            /\ raf' = TRUE
            /\ frames' = cancelAnimationFrame(frames, Closure) \cup {Closure'}
       ELSE UNCHANGED <<from, start, raf, frames>>
    /\ rippleTex' = ExposedTex
    /\ rippleTexQ' = NoQ
    /\ LET r == LeafReset(ph, leaves, nextSpawnAt)
       IN leaves' = r[1] /\ nextSpawnAt' = r[2]
    /\ tex' = RTex
    /\ IF bg # backgroundImage
       THEN TexEffect(bg, TexCleanup(RDisposed, effTex))
       ELSE /\ texQ' = NoQ
            /\ disposed' = RDisposed
            /\ UNCHANGED <<effTex, created, undecodable>>
    /\ UNCHANGED <<simVars, ptrVars, idRef, clockNow, meshCount, unifVars>>

\* The host sets the phase prop.
SetPhase(ph) ==
    /\ ph # phase
    /\ phase' = ph
    /\ UNCHANGED <<maxLeaves, onDrained, backgroundImage, perfNow>>
    /\ drainCalls' = 0
    /\ IF ph = "off" THEN Unmount
       ELSE IF phase = "off" THEN Mount(ph, backgroundImage)
       ELSE Update(ph, backgroundImage, TRUE)

\* The host rerenders Pond with another onDrained function.
SetOnDrained(cb) ==
    /\ cb # onDrained
    /\ onDrained' = cb
    /\ UNCHANGED <<maxLeaves, phase, backgroundImage>>
    /\ IF phase = "off"
       THEN UNCHANGED <<animVars, simVars, ptrVars, rtexVars, leafVars, texVars, unifVars>>
       ELSE Update(phase, backgroundImage, TRUE) /\ UNCHANGED <<perfNow, drainCalls>>

\* The host passes another backgroundImage.
SetBackground(bg) ==
    /\ bg # backgroundImage
    /\ backgroundImage' = bg
    /\ IF phase = "off"
       THEN UNCHANGED <<animVars, simVars, ptrVars, rtexVars, leafVars, texVars, unifVars>>
       ELSE Update(phase, bg, FALSE) /\ UNCHANGED <<perfNow, drainCalls>>
    /\ UNCHANGED <<maxLeaves, phase, onDrained>>

(***************************************************************************)
(* PondScene: tick, the animation-frame callback of the phase effect.      *)
(***************************************************************************)
\* DrainCall of a tick that never calls onDrained
DrainCallNever(ph) == 0

\* if (phase === "draining" && to === 0) onDrained?.(): the calls it adds
DrainCall(ph) == IF ph = "draining" /\ To(ph) = 0 THEN 1 ELSE 0

\* tick run from the closure c of the effect that requested it
tick(c, now) ==
    LET p == Progress(now, c.start, Dur(c.ph))
        e == easeInOutCubic(p)
        v == Interp(c.from, To(c.ph), e)
    IN IF p < One
       THEN /\ levelQ' = Queue(level, levelQ, v)
            /\ frames' = frames
            /\ raf' = raf
            /\ UNCHANGED drainCalls
       ELSE /\ levelQ' = Queue(level, Queue(level, levelQ, v), To(c.ph))
            /\ frames' = frames \ {c}
            /\ raf' = (raf /\ c # Closure)
            /\ drainCalls' = drainCalls + DrainCall(c.ph)

\* The browser runs a pending animation-frame callback.
AnimTick ==
    /\ \E c \in frames, d \in FrameSteps :
          /\ perfNow + d <= MaxPerfNow
          /\ perfNow' = perfNow + d
          /\ tick(c, perfNow + d)
    /\ UNCHANGED <<maxLeaves, phase, onDrained, backgroundImage, level, levelRef, from, start,
                   simVars, ptrVars, rtexVars, leafVars, texVars, unifVars>>

(***************************************************************************)
(* WaterPlane.  The frame callback uploads the component's props to the    *)
(* shader uniforms; the fragment shader computes the colour and the alpha  *)
(* of a pixel.  Distances and smoothstep values are thousandths; the alpha *)
(* and the tint weight of a pixel are in units of 1 / (100 * One).  uTime  *)
(* only moves the drift of the colour and is left out.                     *)
(***************************************************************************)
\* distToCenter = distance(vUv, vec2(0.5)) of the pixels explored
PixelDists == {0, 450, 600, 707}

\* GLSL smoothstep(e0, e1, x) with e0 > e1, as compilers evaluate it:
\* t = clamp((x - e0) / (e1 - e0), 0, 1); t * t * (3 - 2 * t)
smoothstepDown(e0, e1, x) ==
    LET t == Clamp(((e0 - x) * 1000) \div (e0 - e1), 0, 1000)
    IN (t * t * (3000 - 2 * t)) \div (1000 * 1000)

\* float vignette = smoothstep(0.98, 0.45, distToCenter)
Vignette(d) == smoothstepDown(980, 450, d)

\* OutAlpha with the opacity falling as the level rises
AlphaFalling(lv, d) == ((54 * One - 48 * lv) * Vignette(d)) \div 1000

\* float alpha = 0.06 + 0.48 * uLevel; alpha *= vignette
OutAlpha(lv, d) == ((6 * One + 48 * lv) * Vignette(d)) \div 1000

\* mix(bg, uTint, 0.25 + 0.35 * uLevel): the weight of the tint
TintMix(lv) == 25 * One + 35 * lv

\* WaterPlane's useFrame callback
WaterBody == waterU' = WaterUniforms(level, tex, rippleTex)

WaterFrame ==
    /\ phase # "off"
    /\ WaterBody
    /\ UNCHANGED <<maxLeaves, phase, onDrained, backgroundImage, animVars, simVars,
                   ptrVars, rtexVars, leafVars, texVars, leafU>>

(***************************************************************************)
(* Specifications.                                                         *)
(***************************************************************************)
Init ==
    /\ phase = "off"
    /\ onDrained = 1
    /\ backgroundImage = Null
    /\ maxLeaves \in 1 .. MaxCap
    /\ level = 0 /\ levelQ = NoQ /\ levelRef = 0
    /\ raf = FALSE /\ frames = {} /\ from = 0 /\ start = 0
    /\ perfNow = 0
    /\ drainCalls = 0
    /\ prevIdx = 0 /\ prevPrevIdx = 1 /\ writeIdx = 2
    /\ read0 = rtA /\ read1 = rtB /\ write = rtA
    /\ bufs = [i \in Idx |-> ClearedBuffer]
    /\ written = [i \in Idx |-> 0]
    /\ ticks = 0
    /\ mouseUv = <<-10 * UvOne, -10 * UvOne>>
    /\ lastMouse = <<0, 0>>
    /\ lastT = 0
    /\ impulse = 0
    /\ impulseRadius = baseRadius
    /\ rippleTex = Null /\ rippleTexQ = NoQ
    /\ leaves = <<>> /\ nextSpawnAt = 0 /\ idRef = 1
    /\ clockNow = 0 /\ meshCount = maxLeaves
    /\ tex = Null /\ texQ = NoQ /\ effTex = Null
    /\ created = 0 /\ disposed = {} /\ undecodable = {}
    /\ waterU = WaterUniforms(0, Null, Null)
    /\ leafU = LeafUniforms(Null)

\* The phase animator and its host.
Next ==
    \/ \E ph \in Phases : SetPhase(ph)
    \/ \E cb \in CbIds : SetOnDrained(cb)
    \/ AnimTick
    \/ Render

Spec == Init /\ [][Next]_vars

\* The phase animator with animation frames that keep firing and a React
\* that renders every queued update.
SpecFair == Init /\ [][Next]_vars /\ WF_vars(AnimTick) /\ WF_vars(Render)

\* The ripple simulator, its pointer input and its host.
NextSim ==
    \/ \E ph \in Phases : SetPhase(ph)
    \/ \E e \in ClientPoints, el \in PointerSteps : onMove(e, el)
    \/ \E e \in ClientPoints, el \in PointerSteps : onDown(e, el)
    \/ \E dt \in FrameDts : RippleFrame(dt)
    \/ Render

SpecSim == Init /\ [][NextSim]_vars

\* The leaf layer and its host.
NextLeaf ==
    \/ \E ph \in Phases : SetPhase(ph)
    \/ \E dt \in FrameDts : LeafFrame(dt)

SpecLeaf == Init /\ [][NextLeaf]_vars

\* The background texture hook, the water surface that binds its texture,
\* and the host.
NextTex ==
    \/ \E ph \in Phases : SetPhase(ph)
    \/ \E bg \in Urls \cup {Null} : SetBackground(bg)
    \/ Render
    \/ WaterFrame

SpecTex == Init /\ [][NextTex]_vars

\* One rendered frame of the scene: the useFrame callbacks of RippleSim,
\* LeafSystem and WaterPlane run in the order the components are mounted.
\* The consumers read the rippleTex prop of the last render, which the
\* simulator's onTexture does not change before the next render.
Frame(dt) ==
    /\ phase # "off"
    /\ clockNow + dt <= MaxClock
    /\ RippleBody(dt)
    /\ LeafBody(dt)
    /\ WaterBody
    /\ UNCHANGED <<maxLeaves, phase, onDrained, backgroundImage, animVars, texVars>>

\* The pointer handlers alone, at client positions inside the canvas, on its
\* corners and outside it on either side.
WidePoints ==
    { <<CanvasW \div 4, CanvasH \div 4>>, <<CanvasW \div 2, (3 * CanvasH) \div 4>>,
      <<0, 0>>, <<CanvasW, CanvasH>>,
      <<-1, CanvasH + 1>>, <<CanvasW + 1, -1>> }

NextPtr ==
    \/ \E ph \in Phases : SetPhase(ph)
    \/ \E e \in WidePoints, el \in PointerSteps : onMove(e, el)
    \/ \E e \in WidePoints, el \in PointerSteps : onDown(e, el)

SpecPtr == Init /\ [][NextPtr]_vars

\* The leaf layer over a shorter run of the clock: long enough for a leaf at
\* the fastest drift explored to cross the viewport and be culled.
ShortClock == 300       \* bound: frames of SpecLeafShort stop at this elapsed clock time

NextLeafShort ==
    \/ \E ph \in Phases : SetPhase(ph)
    \/ \E dt \in FrameDts : LeafFrame(dt) /\ clockNow' <= ShortClock

SpecLeafShort == Init /\ [][NextLeafShort]_vars

(***************************************************************************)
(* The two-render-target RippleSim (an earlier version of the component):  *)
(* refs read0, read1 and write over the targets rtA and rtB.  written[t]   *)
(* is the tick whose output target t holds.  The heights are left out: the *)
(* tick samples a target it is rendering into, which WebGL leaves          *)
(* undefined.                                                              *)
(***************************************************************************)
moveGainTwo == 15       \* speed * 0.15, in hundredths

\* onMove of this version: the position in the window, not clamped
windowUv(e) == <<(e[1] * UvOne) \div CanvasW, UvOne - (e[2] * UvOne) \div CanvasH>>

onMoveTwo(e, el) ==
    /\ phase # "off"
    /\ perfNow + el <= MaxPerfNow
    /\ perfNow' = perfNow + el
    /\ IF ~Enabled
       THEN UNCHANGED ptrVars
       ELSE LET uv == windowUv(e)
                dt == Max(1, perfNow' - lastT)
                dist == ISqrt(Dist2(uv, lastMouse))
            IN /\ mouseUv' = uv
               /\ impulse' = Min(HOne, (HOne * moveGainTwo * 10 * dist) \div (UvOne * dt))
               /\ lastMouse' = uv
               /\ lastT' = perfNow'
               /\ UNCHANGED impulseRadius
    /\ UNCHANGED <<maxLeaves, phase, onDrained, backgroundImage, level, levelQ, levelRef, raf,
                   frames, from, start, drainCalls, simVars, rtexVars, leafVars, texVars,
                   unifVars>>

\* swap write target (alternate between A and B)
SwapWrite(w) == IF w = rtA THEN rtB ELSE rtA

\* The two useFrame callbacks of this version: the tick, then onTexture.
TwoTargetFrame ==
    /\ phase # "off"
    /\ IF ~Enabled
       THEN /\ rippleTexQ' = Queue(rippleTex, rippleTexQ, Null)
            /\ UNCHANGED <<simVars, ptrVars>>
       ELSE /\ ticks < MaxTicks
            /\ write' = SwapWrite(write)
            /\ written' = [written EXCEPT ![write'] = ticks + 1]
            /\ impulse' = (impulse * impulseDecay) \div 100
            /\ read1' = read0
            /\ read0' = write'
            /\ ticks' = ticks + 1
            /\ rippleTexQ' = Queue(rippleTex, rippleTexQ, read0')
            /\ UNCHANGED <<prevIdx, prevPrevIdx, writeIdx, bufs, mouseUv, lastMouse, lastT,
                           impulseRadius>>
    /\ UNCHANGED <<maxLeaves, phase, onDrained, backgroundImage, animVars, rippleTex, leafVars,
                   texVars, unifVars>>

NextTwoTarget ==
    \/ \E ph \in Phases : SetPhase(ph)
    \/ \E e \in ClientPoints, el \in PointerSteps : onMoveTwo(e, el)
    \/ TwoTargetFrame
    \/ Render

SpecTwoTarget == Init /\ [][NextTwoTarget]_vars

\* The leaf layer mounted once and kept enabled, with a frame every 2 s
\* that keeps arriving until the clock reaches LiveClock: long enough for a
\* leaf at the slowest drift to cross the viewport.
LiveClock == 700        \* bound: frames of SpecLeafLive stop at this elapsed clock time
LiveDts == {20}         \* dt of the frames of SpecLeafLive, tenths of a second

LeafLiveFrame ==
    \E dt \in LiveDts :
        /\ phase # "off"
        /\ clockNow + dt <= LiveClock
        /\ LeafBody(dt)
        /\ UNCHANGED <<maxLeaves, phase, onDrained, backgroundImage, animVars, simVars,
                       ptrVars, rtexVars, texVars, waterU>>

NextLeafLive ==
    \/ phase = "off" /\ \E ph \in {"filling", "on"} : SetPhase(ph)
    \/ LeafLiveFrame

SpecLeafLive == Init /\ [][NextLeafLive]_vars /\ WF_vars(LeafLiveFrame)

\* The simulator, its two consumers and the host.
NextFrame ==
    \/ \E ph \in Phases : SetPhase(ph)
    \/ \E dt \in FrameDts : Frame(dt)
    \/ Render

SpecFrame == Init /\ [][NextFrame]_vars

\* The phase animator, the water surface that shows its level, and the host.
NextWater ==
    \/ \E ph \in Phases : SetPhase(ph)
    \/ AnimTick
    \/ Render
    \/ WaterFrame

SpecWater == Init /\ [][NextWater]_vars

(***************************************************************************)
(* Properties.                                                             *)
(***************************************************************************)
RippleFrameStep == \E dt \in FrameDts : RippleFrame(dt)

\* C1: a frame of RippleSim with enabled = false reports a null texture
\* through onTexture and changes neither the three role indices nor the
\* contents of any buffer.
C1_DisabledFrameInert ==
    [][(~Enabled /\ RippleFrameStep) =>
          /\ ExposedTex' = Null
          /\ UNCHANGED <<prevIdx, prevPrevIdx, writeIdx, bufs>>]_vars

\* A disabled frame has reported null after the simulation had run.
C1_Witness ==
    /\ phase = "draining" /\ ticks > 0
    /\ rippleTex # Null /\ rippleTexQ = Null

\* C2: every height stored in every buffer lies in [-1, 1].
C2_HeightsBounded ==
    \A i \in Idx : \A c \in Cells : decodeH(bufs[i][c]) \in (-HOne) .. HOne

\* A tick has written a height that the clamp cut to 1.
C2_Witness ==
    /\ ticks > 0
    /\ \E c \in Cells : decodeH(bufs[prevIdx][c]) = HOne

\* C3: an enabled frame performs exactly one tick, whatever dt, and rotates
\* the roles: the buffer written becomes current, the old current becomes
\* previous, the old previous becomes the write target; the texture
\* reported through onTexture is the buffer written.
C3_EnabledFrameRotates ==
    [][(Enabled /\ RippleFrameStep) =>
          /\ ticks' = ticks + 1
          /\ written' = [written EXCEPT ![writeIdx] = ticks + 1]
          /\ prevIdx' = writeIdx
          /\ prevPrevIdx' = prevIdx
          /\ writeIdx' = prevPrevIdx
          /\ ExposedTex' = writeIdx]_vars

\* Two ticks have rotated the roles twice.
C3_Witness ==
    /\ Enabled /\ ticks = 2
    /\ prevIdx = 1 /\ prevPrevIdx = 2 /\ writeIdx = 0
    /\ ExposedTex = 1

C4_Roles ==
    /\ {prevIdx, prevPrevIdx, writeIdx} = Idx
    /\ written[prevIdx] = ticks
    /\ written[prevPrevIdx] = Max(ticks - 1, 0)
    /\ written[writeIdx] = Max(ticks - 2, 0)

C4_OneWrite ==
    (Enabled /\ RippleFrameStep) =>
        /\ writeIdx \notin {prevIdx, prevPrevIdx}
        /\ \A i \in Idx \ {writeIdx} : bufs'[i] = bufs[i] /\ written'[i] = written[i]

\* C4: the three role indices are pairwise distinct values of {0,1,2}; a
\* tick writes exactly one buffer, which is neither of the two it reads;
\* the two buffers read hold the results of the two most recent ticks.
C4_DistinctRoles == [](C4_Roles) /\ [][C4_OneWrite]_vars

\* After two ticks current and previous hold ticks 2 and 1.
C4_Witness ==
    /\ ticks = 2
    /\ written[prevIdx] = 2 /\ written[prevPrevIdx] = 1 /\ written[writeIdx] = 0

\* C5: onDrained is invoked at most once while the host holds the phase at
\* "draining", and never while the phase is "filling" or "on", whatever the
\* host does, a new onDrained identity included.
C5_OnDrainedOncePerCycle ==
    /\ drainCalls <= 1
    /\ phase # "draining" => drainCalls = 0

\* A drain had completed and called onDrained; the host then passed another
\* onDrained while the phase was still "draining", and it was called again.
C5_Witness ==
    /\ phase = "draining" /\ drainCalls = 2
    /\ onDrained # 1 /\ level = 0 /\ ~raf

Between(x, a, b) == Min(a, b) <= x /\ x <= Max(a, b)

C6_StartsFromCurrent ==
    (phase # "off" /\ phase' # "off" /\ (phase' # phase \/ onDrained' # onDrained)) =>
        /\ from' = LastSetLevel
        /\ level' = LastSetLevel
        /\ levelQ' = NoQ
        /\ start' = perfNow'

\* C6: a phase change during a transition starts the new interpolation from
\* the level set most recently, not from the old target, and every level
\* set afterwards lies between that level and the new target.
C6_Retarget ==
    /\ [][C6_StartsFromCurrent]_vars
    /\ [](phase # "off" => Between(level, from, To(phase))
                            /\ Between(LastSetLevel, from, To(phase)))

\* A filling transition was interrupted mid-way and the level is draining
\* from where it was.
C6_Witness ==
    /\ phase = "draining" /\ raf
    /\ 0 < from /\ from < One
    /\ 0 < LastSetLevel /\ LastSetLevel < from

C7_Filling == phase = "filling" /\ from = 0

C7_OnCurve ==
    C7_Filling =>
        /\ perfNow > start =>
              LastSetLevel = easeInOutCubic(Progress(perfNow, start, FillDur))
        /\ 2 * (perfNow - start) = FillDur => 2 * LastSetLevel = One
        /\ perfNow - start >= FillDur => LastSetLevel = One /\ ~raf
        /\ perfNow - start < FillDur => raf

C7_NonDecreasing ==
    (C7_Filling /\ C7_Filling') => LastSetLevel' >= LastSetLevel

\* C7: from level 0 with the phase held at "filling" the level follows the
\* eased curve over 650 ms: it never decreases, is 0.5 at half the
\* duration, and is set to exactly 1 by the first tick at or after 650 ms,
\* which schedules no further tick.
C7_FillCurve == [](C7_OnCurve) /\ [][C7_NonDecreasing]_vars

\* A fill from 0 has completed.
C7_Witness ==
    /\ C7_Filling /\ perfNow - start >= FillDur
    /\ level = One /\ ~raf

\* C8: the number of active leaves never exceeds maxLeaves.
C8_PopulationCapped == Len(leaves) <= maxLeaves

\* The population is at the largest cap explored with the spawn timer due
\* and no leaf near the spawn edge: only the cap holds the next spawn back.
C8_Witness ==
    /\ Enabled /\ maxLeaves = MaxCap /\ Len(leaves) = maxLeaves
    /\ nextSpawnAt # 0 /\ clockNow >= nextSpawnAt
    /\ ~TooClose(leaves)

\* C9: while the layer is disabled the active set is empty and the spawn
\* timer is reset, from the commit that disables it on.
C9_DisabledIsEmpty ==
    (phase # "off" /\ ~Enabled) => (leaves = <<>> /\ nextSpawnAt = 0)

\* The layer was disabled after a frame that ended with leaves active.
C9_Witness ==
    /\ phase = "draining" /\ leaves = <<>>
    /\ meshCount >= 1 /\ meshCount < maxLeaves
    /\ idRef > 1

\* C10: at most one texture is undisposed at any time, and only the one the
\* running effect created; none is after the image is cleared or after
\* unmount.
C10_NoTextureLeak ==
    /\ Cardinality(Undisposed) <= 1
    /\ Undisposed \subseteq {effTex}
    /\ phase = "off" => Undisposed = {}
    /\ backgroundImage = Null => Undisposed = {}

\* Two replacements and an unmount have disposed every texture created.
C10_Witness ==
    /\ phase = "off" /\ created >= 2
    /\ disposed = 1 .. created

\* C11: the presence level, as rendered, as set by setLevel and as held in
\* levelRef, is always a value in [0, 1], whatever phase changes the host
\* makes and whenever it makes them.
C11_LevelInUnitInterval ==
    /\ level \in 0 .. One
    /\ LastSetLevel \in 0 .. One
    /\ levelRef \in 0 .. One
    /\ from \in 0 .. One

\* A drain interrupted mid-way is filling again from a level strictly
\* between 0 and 1, and a tick has already moved the level up from there.
C11_Witness ==
    /\ phase = "filling" /\ raf
    /\ 0 < from /\ from < One
    /\ from < LastSetLevel /\ LastSetLevel < One

\* C12: while the phase is "on" the level holds at 1 and no animation is
\* active: no animation-frame callback of the phase effect is pending (so
\* setLevel is not called).
C12_OnHoldsAtOne ==
    phase = "on" => (level = One /\ LastSetLevel = One /\ ~raf)

\* The phase went to "on" with the level already at 1; a tick of the "on"
\* transition has run since and has requested another frame.
C12_Witness ==
    /\ phase = "on" /\ from = One /\ level = One
    /\ perfNow > start /\ raf

\* C13: the cleanup of the phase effect cancels the pending animation-frame
\* callback of the transition it ends: every pending callback belongs to
\* the running effect, none is pending once the scene is torn down, and so
\* no tick of a superseded or torn-down transition runs.
C13_NoStaleTick ==
    /\ frames \subseteq {Closure}
    /\ raf <=> (Closure \in frames)
    /\ phase = "off" => frames = {}

\* A fill was superseded by a drain while its callback was pending; the
\* drain has ticked since and its callback is the only one pending.
C13_Witness ==
    /\ phase = "draining" /\ 0 < from /\ from < One
    /\ perfNow > start /\ LastSetLevel < from
    /\ frames = {Closure}

RECURSIVE SumSquares(_, _)
SumSquares(buf, cs) ==
    IF cs = {} THEN 0
    ELSE LET c == CHOOSE x \in cs : TRUE
         IN decodeH(buf[c]) * decodeH(buf[c]) + SumSquares(buf, cs \ {c})

\* The sum of squared heights of the current height field.
Energy == SumSquares(bufs[prevIdx], Cells)

\* C14: a tick that uploads an impulse magnitude of 0 does not increase the
\* sum of squared heights of the current height field.
C14_EnergyNonIncreasing ==
    [][(Enabled /\ RippleFrameStep /\ impulse = 0) => Energy' <= Energy]_vars

\* C15: at every pixel the output alpha (0.06 + 0.48 * level) * vignette and
\* the tint weight 0.25 + 0.35 * level are non-decreasing in the level: at
\* the level uploaded they are at least what they are at every lower level;
\* and at level 0 the alpha is at most 0.06.
C15_AlphaTintMonotone ==
    \A d \in PixelDists :
        /\ OutAlpha(0, d) <= 6 * One
        /\ \A l \in 0 .. waterU.uLevel :
              /\ OutAlpha(l, d) <= OutAlpha(waterU.uLevel, d)
              /\ TintMix(l) <= TintMix(waterU.uLevel)

\* A level strictly between 0 and 1 has been uploaded, and at a pixel in
\* the vignette's falloff the alpha is strictly above its value at level 0.
C15_Witness ==
    /\ 0 < waterU.uLevel /\ waterU.uLevel < One
    /\ \E d \in PixelDists :
          /\ 0 < Vignette(d) /\ Vignette(d) < 1000
          /\ OutAlpha(0, d) < OutAlpha(waterU.uLevel, d)
          /\ OutAlpha(waterU.uLevel, d) < OutAlpha(One, d)

PointerStep ==
    \E e \in ClientPoints, el \in PointerSteps : onMove(e, el) \/ onDown(e, el)

\* C16: while the simulator is disabled a pointermove or pointerdown
\* changes none of mouseUv, lastMouse, lastT, impulse and impulseRadius,
\* and the impulse magnitude is at rest at zero.
C16_DisabledPointerAtRest ==
    /\ [][(~Enabled /\ PointerStep) => UNCHANGED ptrVars]_vars
    /\ []((phase # "off" /\ ~Enabled) => impulse = 0)

\* The simulator was disabled right after a click: it holds the click's
\* magnitude and enlarged radius while disabled.
C16_Witness ==
    /\ phase = "draining"
    /\ impulse > HOne /\ impulseRadius = clickRadius

FrameStep == \E dt \in FrameDts : Frame(dt)

\* The simulator's texture of the current frame: the buffer in the current
\* role, or null while the simulator is disabled.
CurrentTex == IF Enabled THEN prevIdx ELSE Null

\* C17: after every frame the height field bound by WaterPlane and by
\* LeafSystem is the simulator's texture of that frame (the buffer current
\* after the frame's tick, null when disabled), each uHasRipple is 1 exactly
\* when the reference bound is not null, and no buffer other than the tick's
\* write target has changed.
C17_ConsumersBindCurrent ==
    [][FrameStep =>
          /\ waterU'.uRippleTex = CurrentTex'
          /\ leafU'.uRippleTex = CurrentTex'
          /\ waterU'.uHasRipple = Has(waterU'.uRippleTex)
          /\ leafU'.uHasRipple = Has(leafU'.uRippleTex)
          /\ \A i \in Idx \ {writeIdx} : bufs'[i] = bufs[i]]_vars

\* After the second tick, with a render between the frames, both consumers
\* bind the buffer the first tick wrote, which is now the previous one.
C17_Witness ==
    /\ Enabled /\ ticks = 2
    /\ waterU.uRippleTex = prevPrevIdx /\ waterU.uHasRipple = 1
    /\ leafU.uRippleTex = prevPrevIdx

\* C18: a background image that fails to decode is treated as no
\* background: the texture bound for the shader is never one whose image
\* failed to decode, and uHasSceneTex is 1 exactly when a texture is bound
\* (otherwise the flat tint is the background).
C18_DecodeFailureIsNoBackground ==
    /\ waterU.uSceneTex \notin undecodable
    /\ waterU.uHasSceneTex = Has(waterU.uSceneTex)

\* The image of the current backgroundImage failed to decode, and a frame
\* has bound its texture with uHasSceneTex = 1.
C18_Witness ==
    /\ backgroundImage # Null /\ effTex \in undecodable
    /\ waterU.uSceneTex = effTex /\ waterU.uHasSceneTex = 1

OnMoveStep == \E e \in ClientPoints, el \in PointerSteps : onMove(e, el)
OnDownStep == \E e \in ClientPoints, el \in PointerSteps : onDown(e, el)

\* The magnitude 1.25 of a click.
ClickMagnitude == (clickImpulse * HOne) \div 100

C19_Move ==
    (Enabled /\ OnMoveStep) =>
        /\ impulse' = Min(HOne, (HOne * 350 * ISqrt(Dist2(mouseUv', lastMouse)))
                                    \div (UvOne * Max(1, perfNow' - lastT)))
        /\ impulse' <= HOne
        /\ lastMouse' = mouseUv' /\ lastT' = perfNow'

C19_Down ==
    (Enabled /\ OnDownStep) =>
        /\ impulse' = Max(impulse, ClickMagnitude)
        /\ impulseRadius' = 40

\* C19: while enabled a pointermove sets the magnitude to
\* min(1.0, speed * 0.35), speed being the distance from the previous sample
\* over the elapsed time floored at 1 ms; a pointerdown sets the magnitude
\* to max(magnitude, 1.25) and the radius to 0.04; the magnitude is always
\* in [0, 1.25] and at most 1 right after a move.
C19_PointerImpulse ==
    /\ [][C19_Move]_vars
    /\ [][C19_Down]_vars
    /\ [](impulse \in 0 .. ClickMagnitude)

\* A slow move has set a magnitude strictly between 0 and 1, after a click
\* had set 1.25 earlier.
C19_Witness ==
    /\ Enabled /\ ticks = 0
    /\ 0 < impulse /\ impulse < HOne
    /\ impulseRadius = clickRadius
    /\ lastT = perfNow /\ lastMouse = mouseUv


\* A frame of the enabled simulator, and a step of a pointer handler or of a
\* mount, unmount or remount of the scene.
EnabledFrameStep == Enabled /\ \E dt \in FrameDts : RippleFrame(dt)
MountStep == (phase = "off") # (phase' = "off")

C20_Decay ==
    EnabledFrameStep =>
        /\ 100 * impulse' <= impulseDecay * impulse
        /\ impulseDecay * impulse < 100 * (impulse' + 1)
        /\ 100 * (impulseRadius' - impulseRadius) <= radiusEase * (baseRadius - impulseRadius)
        /\ radiusEase * (baseRadius - impulseRadius) < 100 * (impulseRadius' - impulseRadius + 1)
        /\ impulseRadius' <= impulseRadius
        /\ (impulseRadius > baseRadius => impulseRadius' < impulseRadius)

C20_Holds ==
    (~EnabledFrameStep /\ ~PointerStep /\ ~MountStep) => UNCHANGED <<impulse, impulseRadius>>

\* C20: every frame of the enabled simulator, with or without a pointer
\* event since the previous frame, replaces the magnitude m it uploaded by
\* 0.85 m and the radius r by r + 0.18 (0.02 - r), both rounded down to the
\* fixed-point grid; nothing but a pointer handler changes them between
\* frames, so the k-th frame after one that uploaded m uploads m 0.85^k;
\* and the radius stays in [0.02, 0.04], never increases and decreases
\* while it is above 0.02.
C20_ImpulseDecay ==
    /\ [][C20_Decay]_vars
    /\ [][C20_Holds]_vars
    /\ [](impulseRadius \in baseRadius .. clickRadius)

\* A frame has run after a click: the magnitude and the radius are strictly
\* between their rest values and the click's values.
C20_Witness ==
    /\ Enabled /\ ticks >= 1
    /\ 0 < impulse /\ impulse < ClickMagnitude
    /\ baseRadius < impulseRadius /\ impulseRadius < clickRadius


\* The position of a client point in the canvas's rectangle, origin at the
\* bottom-left corner, limited to the unit square.
UnitSquarePos(e) ==
    << IF e[1] <= 0 THEN 0 ELSE IF e[1] >= CanvasW THEN UvOne
       ELSE (e[1] * UvOne) \div CanvasW,
       IF e[2] >= CanvasH THEN 0 ELSE IF e[2] <= 0 THEN UvOne
       ELSE UvOne - (e[2] * UvOne) \div CanvasH >>

\* C21: a pointermove or pointerdown handled while the simulator is enabled,
\* at a client position inside or outside the canvas, stores in mouseUv the
\* position relative to the canvas rectangle with the origin at the
\* bottom-left, inside [0,1] x [0,1], and sets lastMouse to the same
\* position in the same handler.
C21_PointerPosition ==
    [][\A e \in WidePoints, el \in PointerSteps :
          (Enabled /\ (onMove(e, el) \/ onDown(e, el))) =>
              /\ mouseUv' = UnitSquarePos(e)
              /\ mouseUv'[1] \in 0 .. UvOne /\ mouseUv'[2] \in 0 .. UvOne
              /\ lastMouse' = mouseUv']_vars

\* An event above and to the right of the canvas has been handled: the
\* position stored is the top-right corner.
C21_Witness ==
    /\ Enabled /\ mouseUv = <<UvOne, UvOne>> /\ lastMouse = mouseUv /\ lastT = perfNow


\* A step in which LeafSystem's useFrame callback runs: the only step that
\* advances the clock.  A frame of the enabled layer whose timed spawn
\* attempt runs: the timer is set and has elapsed and the population is
\* under the cap.
LeafFrameStep == clockNow' > clockNow
TimedAttempt ==
    /\ Enabled /\ LeafFrameStep
    /\ nextSpawnAt # 0 /\ clockNow' >= nextSpawnAt
    /\ Len(leaves) < maxLeaves

\* The population is at 70% of the cap or more and a leaf is still near the
\* spawn edge.
AtSeventyPercentNearEdge ==
    /\ 10 * Len(leaves) >= 7 * maxLeaves
    /\ \E i \in 1 .. Len(leaves) : 2 * leaves[i].x < -viewportW + 320

\* C22: a timed spawn attempt adds exactly one leaf, unless the population
\* is at 70% of the cap or more and a leaf is near the spawn edge, and then
\* it adds none (so below 70% it is never suppressed); after either outcome
\* the next attempt is scheduled a draw from [2.5 s, 6.5 s] later.
C22_TimedSpawn ==
    [][TimedAttempt =>
          /\ idRef' - idRef = (IF AtSeventyPercentNearEdge THEN 0 ELSE 1)
          /\ nextSpawnAt' - clockNow' \in 25 .. 65]_vars

\* With a cap of 2 a timed attempt has just run and added nothing while the
\* only leaf ever spawned, half the cap, was still near the spawn edge.
C22_Witness ==
    /\ Enabled /\ maxLeaves = 2 /\ idRef = 2 /\ Len(leaves) = 1
    /\ nextSpawnAt >= clockNow + 25
    /\ 2 * leaves[1].x < -viewportW + 320


\* A leaf position inside the visible bounds: x < w/2 + 0.8 and
\* -h/2 - 0.8 < y < h/2 + 0.8.
InBounds(l) ==
    /\ l.x * 2 < viewportW + 160
    /\ -viewportH - 160 < l.y * 2
    /\ l.y * 2 < viewportH + 160

\* The leaves active before a frame, at the positions the frame moves them
\* to, without those that are then outside the visible bounds.
Survivors ==
    SelectSeq([i \in 1 .. Len(leaves) |->
                  MoveLeaf(leaves[i], clockNow', clockNow' - clockNow)], InBounds)

\* C23: in a frame of the enabled layer the leaves that leave the active
\* set are exactly those whose position in that frame is outside the visible
\* bounds (the others stay, in order, followed by at most the leaves spawned
\* in the frame); after every enabled frame every active leaf is inside the
\* bounds; and a step that is not an enabled frame changes the active set
\* only by clearing it while the layer is disabled.
C23_CullOnlyOutside ==
    /\ [][(Enabled /\ LeafFrameStep) =>
            /\ Len(leaves') >= Len(Survivors)
            /\ SubSeq(leaves', 1, Len(Survivors)) = Survivors
            /\ Len(leaves') - Len(Survivors) <= idRef' - idRef]_vars
    /\ [][(~(Enabled /\ LeafFrameStep) /\ leaves' # leaves) =>
            (leaves' = <<>> /\ phase' \notin {"on", "filling"})]_vars
    /\ [](\A i \in 1 .. Len(leaves) : InBounds(leaves[i]))

\* The layer is enabled, its first frame has spawned a leaf and set the
\* timer, and the active set is empty again: the leaf was culled.
C23_Witness ==
    /\ Enabled /\ nextSpawnAt # 0 /\ idRef > 1 /\ leaves = <<>>


\* The first frame of the enabled layer after activation or after a
\* disable and re-enable: the spawn timer is still reset and the population
\* is empty.
FirstEnabledFrame ==
    /\ Enabled /\ LeafFrameStep
    /\ nextSpawnAt = 0 /\ leaves = <<>>

\* C24: the first enabled frame after activation, and after each disable
\* and re-enable, ends with exactly one leaf active, spawns exactly one leaf
\* and no second one, and leaves the first timed spawn attempt due 0.2 s to
\* 0.8 s after the frame.
C24_FirstFrameSpawnsOne ==
    [][FirstEnabledFrame =>
          /\ Len(leaves') = 1
          /\ idRef' = idRef + 1
          /\ nextSpawnAt' - clockNow' \in 2 .. 8]_vars

\* The first frame since mount has run with dt = 5 s: it spawned one leaf,
\* set the timer, and its cull removed the leaf again.
C24_Witness ==
    /\ Enabled /\ clockNow = 50 /\ idRef = 2
    /\ nextSpawnAt - clockNow \in 2 .. 8
    /\ leaves = <<>>


\* C25: in phase 'draining' the simulator and the leaf layer are disabled,
\* the ripple texture PondScene hands to its consumers is null and no leaf
\* is active; and while the phase stays 'off' nothing is mounted, so no
\* frame callback of the simulator, the compositor or the leaf layer does
\* any work.
C25_PhaseGatesLayers ==
    /\ [](phase = "draining" => (~Enabled /\ rippleTex = Null /\ leaves = <<>>))
    /\ [][(phase = "off" /\ phase' = "off") =>
            UNCHANGED <<simVars, ptrVars, rtexVars, leafVars, unifVars>>]_vars

\* A frame has run in phase 'draining' with the texture of the last enabled
\* tick still in PondScene's state: the compositor and the leaf layer's
\* material hold it with uHasRipple = 1.
C25_Witness ==
    /\ phase = "draining" /\ rippleTex # Null
    /\ waterU.uRippleTex = rippleTex /\ waterU.uHasRipple = 1
    /\ rippleTexQ = Null


\* A tick of the two-target simulator.
TwoTargetTick == Enabled /\ TwoTargetFrame /\ ticks' = ticks + 1

\* C26: in the two-render-target RippleSim the target written in a tick is
\* neither the target read as uPrev (read0) nor the target read as
\* uPrevPrev (read1) in that tick, so the tick overwrites neither of the
\* two states it reads.
C26_WriteTargetNotRead ==
    [][TwoTargetTick =>
          /\ write' # read0 /\ write' # read1
          /\ written'[read0] = written[read0]
          /\ written'[read1] = written[read1]]_vars

\* The first tick has run: it read rtA as uPrev and rtB as uPrevPrev and
\* rendered into rtB.
C26_Witness ==
    /\ Enabled /\ ticks = 1
    /\ write = rtB /\ read0 = rtB /\ read1 = rtA
    /\ written[rtB] = 1


\* C27: after every frame the instanced mesh's count is
\* min(number of active leaves, maxLeaves); in particular it is 0 after
\* every frame of the disabled layer.
C27_DrawnCountMatches ==
    [][LeafFrameStep =>
          /\ meshCount' = Min(Len(leaves'), maxLeaves)
          /\ (~Enabled => meshCount' = 0)]_vars

\* The layer was disabled after frames that spawned and drew leaves: the
\* active set is cleared and the mesh still draws the count of the last
\* enabled frame.
C27_Witness ==
    /\ phase = "draining" /\ leaves = <<>> /\ nextSpawnAt = 0
    /\ idRef > 1 /\ clockNow >= 75
    /\ meshCount >= 1


\* Leaf n is in the active set; the leaf with id n, if it is.
Active(n) == \E i \in 1 .. Len(leaves) : leaves[i].id = n
LeafOf(ls, n) == ls[CHOOSE i \in 1 .. Len(ls) : ls[i].id = n]

\* A leaf active at LiveStart or before has time to cross the viewport at
\* the slowest drift before the frames explored stop.
LiveStart == 100        \* bound: the leaves followed are those active at this clock time or before

\* In a frame of the enabled layer a leaf that stays active has moved by
\* vx dt in x, with the vx it had, which is in [0.10, 0.22].
C28_Drift ==
    (Enabled /\ LeafFrameStep) =>
        \A n \in 1 .. idRef :
            (Active(n) /\ Active(n)') =>
                LET l == LeafOf(leaves, n)
                    m == LeafOf(leaves', n)
                IN /\ m.vx = l.vx /\ l.vx \in 10 .. 22
                   /\ 10 * (m.x - l.x) <= l.vx * (clockNow' - clockNow)
                   /\ l.vx * (clockNow' - clockNow) < 10 * (m.x - l.x + 1)
                   /\ m.x > l.x

\* C28: while the layer stays enabled and frames keep arriving, every leaf
\* is eventually removed from the active set: in every frame its x grows
\* by vx dt with a constant vx in [0.10, 0.22], so it reaches the far edge
\* after finitely many frames unless it is culled vertically first.
C28_LeafEventuallyRemoved ==
    /\ \A n \in 1 .. LiveStart \div 25 :
          (Active(n) /\ clockNow <= LiveStart) ~> ~Active(n)
    /\ [][C28_Drift]_vars

\* A leaf has drifted across the viewport without being culled vertically
\* and is within one frame of the far edge.
C28_Witness ==
    /\ Enabled
    /\ \E i \in 1 .. Len(leaves) :
          /\ leaves[i].x > 0
          /\ 2 * (leaves[i].x + (leaves[i].vx * 20) \div 10) >= viewportW + 160


\* A draining transition that started early enough for its ticks to fit
\* before the clock explored ends: two late frames take 650 ms.
EarlyDrain(cb) ==
    /\ phase = "draining" /\ onDrained = cb
    /\ start + 2 * 325 <= MaxPerfNow

\* The transition was abandoned: the phase or the onDrained prop changed.
DrainAbandoned(cb) == phase # "draining" \/ onDrained # cb

\* A step that keeps the phase at 'draining' and the onDrained prop, and
\* such a step in which an animation tick runs.
DrainingStep == phase = "draining" /\ phase' = "draining" /\ onDrained' = onDrained
DrainingTick == DrainingStep /\ perfNow' > perfNow

\* C29: while the phase stays 'draining' with the same onDrained and
\* animation frames keep firing, from any starting level the level
\* eventually is exactly 0 and onDrained has been called; the call and the
\* level 0 come with the first tick at or after 500 ms from the start of
\* the transition and with no earlier tick; and the level never increases.
C29_DrainCompletes ==
    /\ \A cb \in CbIds :
          EarlyDrain(cb) ~> (DrainAbandoned(cb) \/ (level = 0 /\ drainCalls >= 1))
    /\ [][DrainingTick =>
            /\ (drainCalls' = drainCalls + 1) <=> (perfNow' - start >= DrainDur)
            /\ (perfNow' - start < DrainDur => drainCalls' = drainCalls)
            /\ (perfNow' - start >= DrainDur => (LastSetLevel' = 0 /\ frames' = {}))]_vars
    /\ [][DrainingStep =>
            (LastSetLevel' <= LastSetLevel /\ level' <= level)]_vars

\* A drain that started from a level strictly between 0 and 1 has finished:
\* the level is 0 and onDrained was called once.
C29_Witness ==
    /\ phase = "draining" /\ 0 < from /\ from < One
    /\ perfNow - start >= DrainDur
    /\ level = 0 /\ levelQ = NoQ /\ drainCalls = 1 /\ frames = {}


\* C30: the background texture the compositor binds in a frame (uSceneTex
\* with uHasSceneTex = 1) is never one on which dispose() has been called,
\* whatever the interleaving of image changes, cleanups, renders and frames.
C30_NoDisposedTextureBound ==
    [][WaterFrame =>
          (waterU'.uHasSceneTex = 1 => waterU'.uSceneTex \notin disposed)]_vars

\* The image changed, the cleanup disposed the texture of the old image, and
\* before React rendered the queued texture a frame bound the old one.
C30_Witness ==
    /\ phase # "off" /\ texQ # NoQ
    /\ tex # Null /\ tex \in disposed
    /\ waterU.uHasSceneTex = 1 /\ waterU.uSceneTex = tex

====
